---- MODULE Spec2Model ----
(***************************************************************************)
(* Model of the datagram demultiplexer of the net crate (src/net/src/      *)
(* lib.rs): MultiplexKind::try_from, DatagramRecv::try_from, Receive::new  *)
(* and Receive::try_from(&Transmit).  Every behaviour takes one datagram   *)
(* (a byte sequence) and the verdict of the STUN parser on it, and applies *)
(* one of the entry points to it.                                          *)
(***************************************************************************)
EXTENDS Integers, Sequences, FiniteSets, TLC

VARIABLES
    buf,        \* the datagram: the bytes handed to the entry point
    stunValid,  \* whether StunMessage::parse accepts buf
    pc,         \* "start", "transmit" (a Transmit was built) or "done"
    op,         \* the entry point that produced result
    args,       \* the addresses handed to Receive::new
    transmit,   \* the Transmit built from buf
    result,     \* what the entry point returned
    parsed      \* the slices handed to StunMessage::parse by the entry point

vars == <<buf, stunValid, pc, op, args, transmit, result, parsed>>

(* ------------------------------ bounds --------------------------------- *)

\* longest datagram explored
MaxLen == 20
\* datagrams of every length 0..SmallLen are explored (and StunHeaderLen-1..MaxLen)
SmallLen == 3
\* number of socket addresses
NumAddrs == 2

(* ------------------------- program constants --------------------------- *)

StunHeaderLen == 20
StunMaxByte0 == 2
DtlsMinByte0 == 20
DtlsMaxByte0 == 64
RtpMinByte0 == 128
RtpMaxByte0 == 192
RtpMinLen == 2
PayloadTypeMask == 127
RtcpMinPt == 64
RtcpMaxPt == 96

(* ------------------------------ inputs --------------------------------- *)

Byte == 0..255

\* second bytes explored: both values of the marker bit around every
\* payload type boundary
Byte1Set == {0, 1, 63, 64, 74, 95, 96, 127, 128, 191, 192, 202, 223, 224, 255}

Lens == (0..SmallLen) \cup ((StunHeaderLen - 1)..MaxLen)

Addrs == 1..NumAddrs

\* bytes after the second one: a fixed pattern, different at each index
Fill(i) == (i * 37 + 11) % 256

MkBuf(b0, b1, len) ==
    [i \in 1..len |-> IF i = 1 THEN b0 ELSE IF i = 2 THEN b1 ELSE Fill(i)]

Datagrams ==
    {MkBuf(b0, 0, len) : b0 \in Byte, len \in {l \in Lens : l < 2}}
    \cup {MkBuf(b0, b1, len) : b0 \in Byte, b1 \in Byte1Set, len \in {l \in Lens : l >= 2}}

(* --------------------------- bit arithmetic ---------------------------- *)

RECURSIVE BitAnd(_, _)
\* a & b on unsigned integers
BitAnd(a, b) ==
    IF a = 0 \/ b = 0 THEN 0
    ELSE ((a % 2) * (b % 2)) + 2 * BitAnd(a \div 2, b \div 2)

(* ------------------------------ results -------------------------------- *)

NoBytes == <<>>

KindOk(k) == [tag |-> "Ok", kind |-> k, err |-> "None"]
\* io::Error::new(io::ErrorKind::InvalidData, "Unknown datagram")
UnknownDatagram == [tag |-> "Err", kind |-> "None", err |-> "InvalidData"]
\* value[0] on an empty slice: index out of bounds, the thread panics
KindPanic == [tag |-> "Panic", kind |-> "None", err |-> "None"]

RecvOk(variant, bytes) ==
    [tag |-> "Ok", variant |-> variant, bytes |-> bytes, err |-> "None", ioKind |-> "None"]
\* the classifier's error wrapped in the wrong variant
NetErrorIoAsStun(e) ==
    [tag |-> "Err", variant |-> "None", bytes |-> NoBytes, err |-> "Stun", ioKind |-> "None"]

\* NetError::Io(e), through #[from] io::Error
NetErrorIo(e) ==
    [tag |-> "Err", variant |-> "None", bytes |-> NoBytes, err |-> "Io", ioKind |-> e.err]
\* NetError::Stun(e), through #[from] StunError
NetErrorStun ==
    [tag |-> "Err", variant |-> "None", bytes |-> NoBytes, err |-> "Stun", ioKind |-> "None"]
RecvPanic ==
    [tag |-> "Panic", variant |-> "None", bytes |-> NoBytes, err |-> "None", ioKind |-> "None"]

NoResult == [tag |-> "None"]
NoTransmit == [source |-> 0, destination |-> 0, contents |-> NoBytes]
NoArgs == [source |-> 0, destination |-> 0]

(* ----------------------------- classifier ------------------------------ *)

\* the length test off by one
StunGuardLonger(byte0, len) == byte0 < StunMaxByte0 /\ len > StunHeaderLen

StunGuard(byte0, len) == byte0 < StunMaxByte0 /\ len >= StunHeaderLen

\* the lower limit excluded
DtlsGuardAbove(byte0) == byte0 > DtlsMinByte0 /\ byte0 < DtlsMaxByte0

\* the lower limit forgotten
DtlsGuardNoFloor(byte0) == byte0 < DtlsMaxByte0

DtlsGuard(byte0) == byte0 >= DtlsMinByte0 /\ byte0 < DtlsMaxByte0

\* the length test off by one
RtpGuardShorter(byte0, len) == byte0 >= RtpMinByte0 /\ byte0 < RtpMaxByte0 /\ len >= RtpMinLen

RtpGuard(byte0, len) == byte0 >= RtpMinByte0 /\ byte0 < RtpMaxByte0 /\ len > RtpMinLen

\* the escape hatch: payload types below 64 are RTP
PtEscape(payload_type) == payload_type < RtcpMinPt

\* the upper limit included
PtRtcpInclusive(payload_type) == payload_type >= RtcpMinPt /\ payload_type <= RtcpMaxPt

PtRtcp(payload_type) == payload_type >= RtcpMinPt /\ payload_type < RtcpMaxPt

PayloadTypeKind(payload_type) ==
    IF PtEscape(payload_type) THEN "Rtp"
    ELSE IF PtRtcp(payload_type) THEN "Rtcp"
    ELSE "Rtp"

MultiplexKindTryFrom(value) ==
    IF Len(value) = 0 THEN KindPanic
    ELSE LET byte0 == value[1]
             len == Len(value)
         IN IF StunGuard(byte0, len) THEN KindOk("Stun")
            ELSE IF DtlsGuard(byte0) THEN KindOk("Dtls")
            ELSE IF RtpGuard(byte0, len)
                 THEN LET byte1 == value[2]
                          payload_type == BitAnd(byte1, PayloadTypeMask)
                      IN KindOk(PayloadTypeKind(payload_type))
            ELSE UnknownDatagram

(* ------------------------- typed view constructor ---------------------- *)

\* StunMessage::parse, of the stun module: valid is the parser's verdict on
\* the slice
StunMessageParse(value, valid) ==
    IF valid THEN RecvOk("Stun", value) ELSE NetErrorStun

\* the RTP variant carries the slice without its first byte
DatagramRecvTryFromSkewed(value, valid) ==
    LET kind == MultiplexKindTryFrom(value)
    IN IF kind.tag = "Panic" THEN [res |-> RecvPanic, calls |-> <<>>]
       ELSE IF kind.tag = "Err" THEN [res |-> NetErrorIo(kind), calls |-> <<>>]
       ELSE IF kind.kind = "Stun"
            THEN [res |-> StunMessageParse(value, valid), calls |-> <<value>>]
       ELSE IF kind.kind = "Dtls" THEN [res |-> RecvOk("Dtls", value), calls |-> <<>>]
       ELSE IF kind.kind = "Rtp"
            THEN [res |-> RecvOk("Rtp", SubSeq(value, 2, Len(value))), calls |-> <<>>]
       ELSE [res |-> RecvOk("Rtcp", value), calls |-> <<>>]

\* res: the Result returned; calls: the slices handed to StunMessage::parse
DatagramRecvTryFrom(value, valid) ==
    LET kind == MultiplexKindTryFrom(value)
    IN IF kind.tag = "Panic" THEN [res |-> RecvPanic, calls |-> <<>>]
       ELSE IF kind.tag = "Err" THEN [res |-> NetErrorIo(kind), calls |-> <<>>]
       ELSE IF kind.kind = "Stun"
            THEN [res |-> StunMessageParse(value, valid), calls |-> <<value>>]
       ELSE IF kind.kind = "Dtls" THEN [res |-> RecvOk("Dtls", value), calls |-> <<>>]
       ELSE IF kind.kind = "Rtp" THEN [res |-> RecvOk("Rtp", value), calls |-> <<>>]
       ELSE [res |-> RecvOk("Rtcp", value), calls |-> <<>>]

\* a Receive, or the error of the `?`
MkReceive(source, destination, r) ==
    IF r.tag = "Ok"
    THEN [tag |-> "Ok", source |-> source, destination |-> destination,
          variant |-> r.variant, bytes |-> r.bytes, err |-> "None", ioKind |-> "None"]
    ELSE [tag |-> r.tag, source |-> 0, destination |-> 0,
          variant |-> "None", bytes |-> NoBytes, err |-> r.err, ioKind |-> r.ioKind]

ReceiveNew(source, destination, b, valid) ==
    LET contents == DatagramRecvTryFrom(b, valid)
    IN [res |-> MkReceive(source, destination, contents.res), calls |-> contents.calls]

DatagramSendNew(v) == v

\* Deref for DatagramSend, then [..]
Deref(contents) == SubSeq(contents, 1, Len(contents))

\* source and destination exchanged
ReceiveTryFromTransmitSwapped(t, valid) ==
    LET contents == DatagramRecvTryFrom(Deref(t.contents), valid)
    IN [res |-> MkReceive(t.destination, t.source, contents.res), calls |-> contents.calls]

ReceiveTryFromTransmit(t, valid) ==
    LET contents == DatagramRecvTryFrom(Deref(t.contents), valid)
    IN [res |-> MkReceive(t.source, t.destination, contents.res), calls |-> contents.calls]

(* ------------------------------ behaviour ------------------------------ *)

Init ==
    /\ buf \in Datagrams
    /\ stunValid \in BOOLEAN
    /\ pc = "start"
    /\ op = "none"
    /\ args = NoArgs
    /\ transmit = NoTransmit
    /\ result = NoResult
    /\ parsed = <<>>

Classify ==
    /\ pc = "start"
    /\ result' = MultiplexKindTryFrom(buf)
    /\ op' = "MultiplexKind"
    /\ pc' = "done"
    /\ UNCHANGED <<buf, stunValid, args, transmit, parsed>>

RecvDatagram ==
    /\ pc = "start"
    /\ LET r == DatagramRecvTryFrom(buf, stunValid)
       IN /\ result' = r.res
          /\ parsed' = r.calls
    /\ op' = "DatagramRecv"
    /\ pc' = "done"
    /\ UNCHANGED <<buf, stunValid, args, transmit>>

NewReceive ==
    /\ pc = "start"
    /\ \E source \in Addrs, destination \in Addrs :
         LET r == ReceiveNew(source, destination, buf, stunValid)
         IN /\ result' = r.res
            /\ parsed' = r.calls
            /\ args' = [source |-> source, destination |-> destination]
    /\ op' = "ReceiveNew"
    /\ pc' = "done"
    /\ UNCHANGED <<buf, stunValid, transmit>>

NewTransmit ==
    /\ pc = "start"
    /\ \E source \in Addrs, destination \in Addrs :
         transmit' = [source |-> source, destination |-> destination,
                      contents |-> DatagramSendNew(buf)]
    /\ pc' = "transmit"
    /\ UNCHANGED <<buf, stunValid, op, args, result, parsed>>

Loopback ==
    /\ pc = "transmit"
    /\ LET r == ReceiveTryFromTransmit(transmit, stunValid)
       IN /\ result' = r.res
          /\ parsed' = r.calls
    /\ op' = "ReceiveTryFrom"
    /\ pc' = "done"
    /\ UNCHANGED <<buf, stunValid, args, transmit>>

Next == Classify \/ RecvDatagram \/ NewReceive \/ NewTransmit \/ Loopback

Spec == Init /\ [][Next]_vars

(* ------------------------------- claims -------------------------------- *)

Classified == pc = "done" /\ op = "MultiplexKind"
Viewed == pc = "done" /\ op \in {"DatagramRecv", "ReceiveNew", "ReceiveTryFrom"}

\* C1: classifying an empty slice through any of the four entry points
\* returns the "unrecognized datagram" error value; it never panics.
C1_EmptyIsUnrecognized ==
    (pc = "done" /\ Len(buf) = 0) =>
        /\ result.tag = "Err"
        /\ op = "MultiplexKind" => result.err = "InvalidData"
        /\ op # "MultiplexKind" => result.err = "Io" /\ result.ioKind = "InvalidData"

\* C2: a slice whose first byte is 0 or 1 classifies as STUN when its
\* length is at least 20, whatever its other bytes, and does not classify as
\* STUN when it is shorter.
C2_Stun ==
    (Classified /\ Len(buf) >= 1 /\ buf[1] \in {0, 1}) =>
        /\ Len(buf) >= 20 => result = KindOk("Stun")
        /\ Len(buf) < 20 => result.kind # "Stun"

C2_Witness ==
    /\ Classified /\ Len(buf) = 20 /\ buf[1] = 1 /\ buf[2] = 255
    /\ result.kind = "Stun"

\* C3: a slice whose first byte is in 20..63 classifies as DTLS at every
\* length from 1 on, whatever its later bytes.
C3_Dtls ==
    (Classified /\ Len(buf) >= 1 /\ buf[1] \in 20..63) => result = KindOk("Dtls")

C3_Witness ==
    Classified /\ Len(buf) = 1 /\ buf[1] = 63 /\ result.kind = "Dtls"

\* C4: for a slice longer than 2 bytes whose first byte is in 128..191, with
\* payload_type the low seven bits of the second byte, the kind is RTCP
\* exactly when 64 <= payload_type < 96 and RTP otherwise; flipping the
\* marker bit of the second byte leaves the result as it is.
C4_RtpRtcp ==
    (Classified /\ Len(buf) > 2 /\ buf[1] \in 128..191) =>
        LET payload_type == buf[2] % 128
            flipped == [buf EXCEPT ![2] = (buf[2] + 128) % 256]
        IN /\ result.tag = "Ok"
           /\ result.kind = "Rtcp" <=> (64 <= payload_type /\ payload_type < 96)
           /\ payload_type < 64 => result.kind = "Rtp"
           /\ payload_type >= 96 => result.kind = "Rtp"
           /\ MultiplexKindTryFrom(flipped) = result

C4_Witness ==
    /\ Classified /\ Len(buf) = 3 /\ buf[1] = 128 /\ buf[2] = 202
    /\ result.kind = "Rtcp"

\* C5: a non-empty slice is rejected as an unrecognized datagram exactly when
\* its first byte is in 2..19, 64..127 or 192..255, or is below 2 with a
\* length below 20, or is in 128..191 with a length of at most 2.
C5_Unrecognized ==
    (Classified /\ Len(buf) >= 1) =>
        LET b0 == buf[1]
            len == Len(buf)
        IN (result = UnknownDatagram) <=>
              \/ b0 \in 2..19
              \/ b0 \in 64..127
              \/ b0 \in 192..255
              \/ b0 < 2 /\ len < 20
              \/ b0 \in 128..191 /\ len <= 2

C5_Witness ==
    Classified /\ buf = <<128, 0>> /\ result = UnknownDatagram

\* C6: converting a Transmit with contents P by Receive::try_from gives a
\* payload variant of the kind the classifier gives for P, fails exactly when
\* the classifier fails on P or P classifies as STUN and the STUN parse
\* fails, and copies source and destination from the Transmit.
C6_RoundTrip ==
    (pc = "done" /\ op = "ReceiveTryFrom") =>
        LET direct == MultiplexKindTryFrom(buf)
            parseFails == direct.kind = "Stun" /\ ~stunValid
        IN /\ transmit.contents = buf
           /\ result.tag = "Ok" <=> (direct.tag = "Ok" /\ ~parseFails)
           /\ result.tag = "Err" <=> (direct.tag = "Err" \/ parseFails)
           /\ result.tag = "Ok" =>
                /\ result.variant = direct.kind
                /\ result.source = transmit.source
                /\ result.destination = transmit.destination

C6_Witness ==
    /\ pc = "done" /\ op = "ReceiveTryFrom"
    /\ result.tag = "Ok" /\ result.variant = "Rtcp"
    /\ transmit.source = 1 /\ transmit.destination = 2
    /\ result.source = 1 /\ result.destination = 2

\* C7: when Receive::new succeeds with a Dtls, Rtp or Rtcp payload, the
\* bytes of the variant are the whole of buf, the variant is the
\* classifier's kind for buf, and source and destination are the arguments.
C7_WholeSlice ==
    (pc = "done" /\ op = "ReceiveNew" /\ result.tag = "Ok"
        /\ result.variant \in {"Dtls", "Rtp", "Rtcp"}) =>
        /\ result.bytes = buf
        /\ Len(result.bytes) = Len(buf)
        /\ KindOk(result.variant) = MultiplexKindTryFrom(buf)
        /\ result.source = args.source
        /\ result.destination = args.destination

C7_Witness ==
    /\ pc = "done" /\ op = "ReceiveNew" /\ result.tag = "Ok"
    /\ result.variant = "Rtp" /\ Len(result.bytes) = 20
    /\ args.source = 2 /\ args.destination = 1

\* C8: the STUN parser is handed a slice only when the classifier returned
\* STUN for it; a parse failure makes the whole call return NetError::Stun
\* and no packet; every call ends in a complete packet or in an error.
C8_ParserAfterStun ==
    Viewed =>
        /\ parsed # <<>> => (parsed = <<buf>> /\ MultiplexKindTryFrom(buf) = KindOk("Stun"))
        /\ (MultiplexKindTryFrom(buf) = KindOk("Stun") /\ ~stunValid) =>
              (result.tag = "Err" /\ result.err = "Stun" /\ result.variant = "None")
        /\ result.tag \in {"Ok", "Err"}
        /\ result.tag = "Ok" =>
              (result.variant \in {"Stun", "Dtls", "Rtp", "Rtcp"} /\ result.err = "None")
        /\ result.tag = "Err" =>
              (result.variant = "None" /\ result.bytes = NoBytes
                 /\ result.err \in {"Io", "Stun"})

\* C9, as stated: an unrecognized datagram is reported by an error variant
\* other than NetError::Io.
C9_UnrecognizedIsNotIo ==
    (Viewed /\ MultiplexKindTryFrom(buf) = UnknownDatagram) =>
        (result.tag = "Err" /\ result.err # "Io")

\* C9, amended: an unrecognized datagram is the classifier's own io::Error
\* of kind InvalidData and reaches the caller as NetError::Io; NetError::Stun
\* is returned only for a slice classified STUN whose parse failed.
C9_UnrecognizedIsIoInvalidData ==
    /\ (Classified /\ result.tag = "Err") => result.err = "InvalidData"
    /\ (Viewed /\ MultiplexKindTryFrom(buf) = UnknownDatagram) =>
          (result.tag = "Err" /\ result.err = "Io" /\ result.ioKind = "InvalidData")
    /\ (Viewed /\ result.tag = "Err" /\ result.err = "Stun") =>
          (MultiplexKindTryFrom(buf) = KindOk("Stun") /\ ~stunValid)
    /\ (Viewed /\ result.tag = "Err" /\ result.err = "Io") =>
          MultiplexKindTryFrom(buf) = UnknownDatagram

C9_Witness ==
    /\ pc = "done" /\ op = "ReceiveNew" /\ buf = <<10>>
    /\ result.tag = "Err" /\ result.err = "Io" /\ result.ioKind = "InvalidData"

\* the three guarded branches of the classifier, tried in the order o
Orders == {o \in [1..3 -> 1..3] : \A i, j \in 1..3 : o[i] = o[j] => i = j}

GuardHolds(i, value) ==
    IF i = 1 THEN StunGuard(value[1], Len(value))
    ELSE IF i = 2 THEN DtlsGuard(value[1])
    ELSE RtpGuard(value[1], Len(value))

BranchKind(i, value) ==
    IF i = 1 THEN KindOk("Stun")
    ELSE IF i = 2 THEN KindOk("Dtls")
    ELSE KindOk(PayloadTypeKind(BitAnd(value[2], PayloadTypeMask)))

EvalInOrder(o, value) ==
    IF GuardHolds(o[1], value) THEN BranchKind(o[1], value)
    ELSE IF GuardHolds(o[2], value) THEN BranchKind(o[2], value)
    ELSE IF GuardHolds(o[3], value) THEN BranchKind(o[3], value)
    ELSE UnknownDatagram

\* the three payload type cases, tried in the order o
PtCaseHolds(i, pt) ==
    IF i = 1 THEN PtEscape(pt)
    ELSE IF i = 2 THEN PtRtcp(pt)
    ELSE pt >= 96

PtCaseKind(i) == IF i = 2 THEN "Rtcp" ELSE "Rtp"

PtEvalInOrder(o, pt) ==
    IF PtCaseHolds(o[1], pt) THEN PtCaseKind(o[1])
    ELSE IF PtCaseHolds(o[2], pt) THEN PtCaseKind(o[2])
    ELSE IF PtCaseHolds(o[3], pt) THEN PtCaseKind(o[3])
    ELSE "None"

\* C10: for a non-empty slice at most one of the STUN, DTLS and RTP/RTCP
\* guards holds, in the RTP/RTCP branch exactly one of the three payload type
\* cases holds, and trying the guards (and the cases) in any order gives the
\* classifier's result.
C10_GuardsDisjoint ==
    (Classified /\ Len(buf) >= 1) =>
        /\ Cardinality({i \in 1..3 : GuardHolds(i, buf)}) <= 1
        /\ \A o \in Orders : EvalInOrder(o, buf) = result
        /\ RtpGuard(buf[1], Len(buf)) =>
              LET pt == BitAnd(buf[2], PayloadTypeMask)
              IN /\ Cardinality({i \in 1..3 : PtCaseHolds(i, pt)}) = 1
                 /\ \A o \in Orders : PtEvalInOrder(o, pt) = result.kind

C10_Witness ==
    /\ Classified /\ Len(buf) = 20 /\ buf[1] = 191 /\ buf[2] = 96
    /\ result = KindOk("Rtp")
    /\ EvalInOrder(<<3, 2, 1>>, buf) = result

====
